---------------------------- MODULE Spec2Model ----------------------------
(***************************************************************************)
(* Standard VTOL transition manager                                        *)
(* (src/modules/vtol_att_control/standard.cpp).                            *)
(*                                                                         *)
(* Time is counted in whole seconds (hrt_absolute_time() * 1e-6).  Float   *)
(* quantities (weights, throttles) are exact rationals <<n, d>>, d > 0, in *)
(* lowest terms, with d = 0 for the results of a division by zero.  The    *)
(* calibrated airspeed, which may be NaN, is a pair <<finite, m/s>>.       *)
(***************************************************************************)
EXTENDS Integers, Sequences, FiniteSets, TLC

(***************************************************************************)
(* Bounds of the model.                                                    *)
(***************************************************************************)
MaxTime == 6      \* the clock is followed up to this many seconds
MaxDt == 2        \* longest interval between two runs of the scheduler

(***************************************************************************)
(* Rational arithmetic standing for the float arithmetic of the source.    *)
(***************************************************************************)
RECURSIVE GCD(_, _)
GCD(a, b) == IF b = 0 THEN a ELSE GCD(b, a % b)

Abs(n) == IF n < 0 THEN -n ELSE n

Sign(n) == IF n < 0 THEN -1 ELSE IF n > 0 THEN 1 ELSE 0

\* n / d for d >= 0 in lowest terms; d = 0 gives the float specials:
\* <<1, 0>> is +inf, <<-1, 0>> is -inf, <<0, 0>> is NaN
Rat(n, d) ==
    IF d = 0 THEN <<Sign(n), 0>>
    ELSE IF n = 0 THEN <<0, 1>>
    ELSE LET g == GCD(Abs(n), d) IN <<n \div g, d \div g>>

R(n) == <<n, 1>>

IsNaN(x) == x[1] = 0 /\ x[2] = 0

RAdd(x, y) ==
    IF x[2] = 0 /\ y[2] = 0
    THEN (IF x[1] = y[1] THEN x ELSE <<0, 0>>)
    ELSE Rat(x[1] * y[2] + y[1] * x[2], x[2] * y[2])
RNeg(x) == <<-x[1], x[2]>>
RSub(x, y) == RAdd(x, RNeg(y))
RMul(x, y) == Rat(x[1] * y[1], x[2] * y[2])
\* x / y; a division by zero gives +-inf or NaN as in float arithmetic
RDiv(x, y) ==
    IF y[1] >= 0 THEN Rat(x[1] * y[2], x[2] * y[1])
                 ELSE Rat(-(x[1] * y[2]), x[2] * (-y[1]))
\* comparisons are false when an operand is NaN
RLt(x, y) ==
    /\ ~IsNaN(x)
    /\ ~IsNaN(y)
    /\ IF x[2] = 0 /\ y[2] = 0 THEN x[1] < y[1]
       ELSE x[1] * y[2] < y[1] * x[2]
RLe(x, y) ==
    /\ ~IsNaN(x)
    /\ ~IsNaN(y)
    /\ IF x[2] = 0 /\ y[2] = 0 THEN x[1] <= y[1]
       ELSE x[1] * y[2] <= y[1] * x[2]
RAbs(x) == <<Abs(x[1]), x[2]>>

\* mutant of constrain: the upper limit is not applied
constrain_NoUpper(val, min_val, max_val) ==
    IF RLt(val, min_val) THEN min_val ELSE val

\* math::constrain(val, min_val, max_val)
constrain(val, min_val, max_val) ==
    IF RLt(val, min_val) THEN min_val
    ELSE IF RLt(max_val, val) THEN max_val ELSE val

\* PX4_ISFINITE on a float modelled as <<finite, value>>
PX4_ISFINITE(f) == f[1]

NaN == <<FALSE, 0>>
Fin(v) == <<TRUE, v>>

(***************************************************************************)
(* Flight modes (vtol_mode) and the coarse public mode (mode).             *)
(***************************************************************************)
MC_MODE == "MC_MODE"
TRANSITION_TO_FW == "TRANSITION_TO_FW"
FW_MODE == "FW_MODE"
TRANSITION_TO_MC == "TRANSITION_TO_MC"
FlightModes == {MC_MODE, TRANSITION_TO_FW, FW_MODE, TRANSITION_TO_MC}

\* switch (_vtol_schedule.flight_mode) at the end of update_vtol_state
CoarseMode(fm) ==
    CASE fm = MC_MODE          -> "ROTARY_WING"
      [] fm = FW_MODE          -> "FIXED_WING"
      [] fm = TRANSITION_TO_FW -> "TRANSITION_TO_FW"
      [] fm = TRANSITION_TO_MC -> "TRANSITION_TO_MC"

(***************************************************************************)
(* Parameters.  Durations and speeds are whole numbers of seconds and m/s, *)
(* throttles are rationals in [0, 1], FW_PSP_OFF is in degrees.            *)
(***************************************************************************)
Half == Rat(1, 2)

RawParams ==
    [ vt_f_trans_thr       : {R(1)},
      vt_psher_rmp_dt      : {0, 2},
      vt_arsp_trans        : {3},
      vt_arsp_blend        : {1, 3},
      vt_trans_timeout     : {0, 3},
      vt_b_trans_dur       : {2},
      vt_b_trans_ramp      : {0, 4},
      vt_b_trans_thr       : {Half},
      vt_b_rev_del         : {1},
      vt_b_rev_out         : {R(1)},
      fw_arsp_mode         : BOOLEAN,
      mpc_xy_cruise        : {3},
      fw_psp_off           : {4},
      vt_elev_mc_lock      : {TRUE},
      min_front_trans_time : {2} ]

Min(a, b) == IF a < b THEN a ELSE b

\* mutant of ParametersUpdate: the duration is clamped, not the ramp
ParametersUpdate_ClampsDur(raw) ==
    [raw EXCEPT !.vt_b_trans_dur = Min(raw.vt_b_trans_ramp, raw.vt_b_trans_dur)]

\* Standard::parameters_update: VT_B_TRANS_RAMP := min(VT_B_TRANS_RAMP, VT_B_TRANS_DUR)
ParametersUpdate(raw) ==
    [raw EXCEPT !.vt_b_trans_ramp = Min(raw.vt_b_trans_ramp, raw.vt_b_trans_dur)]

\* x > FLT_EPSILON for a parameter that is a whole number
GtEpsilon(x) == x > 0

(***************************************************************************)
(* Inputs polled by one run of the scheduler.                              *)
(***************************************************************************)
Airspeeds == {NaN, Fin(2), Fin(3), Fin(4)}

\* is_fixed_wing_requested(), airspeed_validated and can_transition_on_ground():
\* the airspeed is read again by the transition controller in the same tick
SchedInputs ==
    [ fw_requested : BOOLEAN, airspeed : Airspeeds, on_ground : BOOLEAN ]

\* vehicle_local_position, with the velocity already rotated into the body
\* frame (R_to_body * (vx, vy, vz)); only the scheduler reads it
LocalPositions ==
    { [ v_xy_valid |-> v[1], vel_body_x |-> v[2] ] :
        v \in {<<FALSE, 0>>, <<TRUE, 2>>, <<TRUE, 4>>} }

NoInput == [ fw_requested |-> FALSE, airspeed |-> NaN, on_ground |-> FALSE ]

(***************************************************************************)
(* Attitude setpoints.  pitch_body is a number (degrees); every other      *)
(* field holds the name of the input field its value was taken from.       *)
(***************************************************************************)
McVirtualAttSp ==
    [ roll_body |-> "mc.roll_body", pitch_body |-> R(-2),
      yaw_body |-> "mc.yaw_body", thrust_body_0 |-> "mc.thrust_body[0]",
      thrust_body_2 |-> "mc.thrust_body[2]" ]

FwVirtualAttSp ==
    [ roll_body |-> "fw.roll_body", pitch_body |-> R(3),
      yaw_body |-> "fw.yaw_body", thrust_body_0 |-> "fw.thrust_body[0]",
      thrust_body_2 |-> "fw.thrust_body[2]" ]

\* the value update_and_get_backtransition_pitch_sp() returns
BacktransitionPitchSp == R(5)

\* no output has been written by fill_actuator_outputs
NoOutput == << >>

\* the ROLL, PITCH, YAW and THROTTLE channels of an actuator_controls
\* message; the third message has a NaN on one channel
Controls ==
    { [ roll |-> Rat(1, 5), pitch |-> Rat(-2, 5), yaw |-> Rat(3, 5), throttle |-> Rat(4, 5) ],
      [ roll |-> R(-1), pitch |-> R(1), yaw |-> R(0), throttle |-> Half ],
      [ roll |-> Rat(0, 0), pitch |-> Rat(1, 5), yaw |-> R(-1), throttle |-> R(1) ] }

ActuatorInputs == [ mc : Controls, fw : Controls ]

\* the actuator inputs before the attitude controllers have published
NoActuatorInput ==
    [ mc |-> [ roll |-> R(0), pitch |-> R(0), yaw |-> R(0), throttle |-> R(0) ],
      fw |-> [ roll |-> R(0), pitch |-> R(0), yaw |-> R(0), throttle |-> R(0) ] ]

VARIABLES
    flight_mode,              \* _vtol_schedule.flight_mode
    transition_start,         \* _vtol_schedule.transition_start
    mc_roll_weight, mc_pitch_weight, mc_yaw_weight, mc_throttle_weight,
    pusher_throttle,          \* _pusher_throttle
    reverse_output,           \* _reverse_output
    vtol_mode,                \* _vtol_mode
    vtol_transition_failsafe, \* _vtol_vehicle_status->vtol_transition_failsafe
    now,                      \* last value read from hrt_absolute_time()
    pc,                       \* what the caller runs next in this tick
    in,                       \* inputs polled for the running tick
    quadchute_calls,          \* calls of _attc->quadchute() in the running tick
    param,                    \* loaded parameters (_param_*.get())
    param_store,              \* stored parameters, read by updateParams()
    param_updates,            \* calls of parameters_update so far
    returned_early,           \* the controller took an early return in the running tick
    v_att_sp,                 \* *_v_att_sp, the output attitude setpoint
    act_in,                   \* _actuators_mc_in->control and _actuators_fw_in->control
    out                       \* outputs of fill_actuator_outputs

vars == << flight_mode, transition_start, mc_roll_weight, mc_pitch_weight,
           mc_yaw_weight, mc_throttle_weight, pusher_throttle, reverse_output,
           vtol_mode, vtol_transition_failsafe, now, pc, in, quadchute_calls,
           param, param_store, param_updates, returned_early, v_att_sp, act_in,
           out >>

\* what the tick of the transition manager never writes
static == << param, param_store, param_updates, act_in, out >>

TimeSince == now - transition_start

McWeightIs(w) ==
    /\ mc_roll_weight = w
    /\ mc_pitch_weight = w
    /\ mc_yaw_weight = w
    /\ mc_throttle_weight = w

\* Standard::Standard, followed by the first parameters_update
Init ==
    /\ flight_mode = MC_MODE
    /\ transition_start = 0
    /\ mc_roll_weight = R(1)
    /\ mc_pitch_weight = R(1)
    /\ mc_yaw_weight = R(1)
    /\ mc_throttle_weight = R(1)
    /\ pusher_throttle = R(0)
    /\ reverse_output = R(0)
    /\ vtol_mode = "ROTARY_WING"
    /\ vtol_transition_failsafe = FALSE
    /\ now = 0
    /\ pc = "sched"
    /\ in = NoInput
    /\ quadchute_calls = 0
    /\ param_store \in RawParams
    /\ param = ParametersUpdate(param_store)
    /\ param_updates = 1
    /\ returned_early = FALSE
    /\ v_att_sp = McVirtualAttSp
    /\ act_in = NoActuatorInput
    /\ out = NoOutput

(***************************************************************************)
(* Mode scheduler: Standard::update_vtol_state.                            *)
(* s is the part of the object the scheduler reads and writes:             *)
(*   flight_mode, transition_start, mc_weight (the local, initialised from *)
(*   _mc_roll_weight), pusher_throttle, reverse_output, failsafe.          *)
(* i and lp are the polled inputs, hrt the value of hrt_absolute_time(), p *)
(* the parameters.                                                         *)
(***************************************************************************)
\* (float)(hrt_absolute_time() - _vtol_schedule.transition_start) * 1e-6f
TimeSinceTransStart(hrt, start) == hrt - start

\* mutant of FailsafeBranch: the pusher keeps running
FailsafeBranch_KeepsPusher(s, i) ==
    [s EXCEPT !.flight_mode = MC_MODE,
              !.reverse_output = R(0),
              !.failsafe = IF ~i.fw_requested THEN FALSE ELSE s.failsafe]

\* mutant of FailsafeBranch: the flag is cleared whatever the pilot requests
FailsafeBranch_AlwaysClears(s, i) ==
    [s EXCEPT !.flight_mode = MC_MODE,
              !.pusher_throttle = R(0),
              !.reverse_output = R(0),
              !.failsafe = FALSE]

\* failsafe branch of update_vtol_state
FailsafeBranch(s, i) ==
    [s EXCEPT !.flight_mode = MC_MODE,
              !.pusher_throttle = R(0),
              !.reverse_output = R(0),
              !.failsafe = IF ~i.fw_requested THEN FALSE ELSE s.failsafe]

\* speed exit condition of the back transition: ground speed if valid,
\* otherwise airspeed
ExitBacktransitionSpeedCondition(i, lp, p) ==
    IF lp.v_xy_valid
    THEN lp.vel_body_x < p.mpc_xy_cruise
    ELSE IF PX4_ISFINITE(i.airspeed)
         THEN i.airspeed[2] < p.mpc_xy_cruise
         ELSE FALSE

\* mutant of ExitBacktransitionTimeCondition: the time condition is lost
ExitBacktransitionTimeCondition_Never(tsts, p) == FALSE

ExitBacktransitionTimeCondition(tsts, p) == tsts > p.vt_b_trans_dur

ExitBacktransition(i, lp, tsts, p) ==
    \/ i.on_ground                       \* can_transition_on_ground()
    \/ ExitBacktransitionSpeedCondition(i, lp, p)
    \/ ExitBacktransitionTimeCondition(tsts, p)

\* mutant of FwNotRequestedBranch: the back transition does not restart the
\* transition timer
FwNotRequestedBranch_NoTimer(s, i, lp, hrt, p) ==
    CASE s.flight_mode = MC_MODE ->
            [s EXCEPT !.flight_mode = MC_MODE,
                      !.mc_weight = R(1),
                      !.reverse_output = R(0)]
      [] s.flight_mode = FW_MODE ->
            [s EXCEPT !.flight_mode = TRANSITION_TO_MC,
                      !.reverse_output = p.vt_b_rev_out]
      [] s.flight_mode = TRANSITION_TO_FW ->
            [s EXCEPT !.flight_mode = MC_MODE,
                      !.mc_weight = R(1),
                      !.pusher_throttle = R(0),
                      !.reverse_output = R(0)]
      [] s.flight_mode = TRANSITION_TO_MC ->
            IF ExitBacktransition(i, lp, TimeSinceTransStart(hrt, s.transition_start), p)
            THEN [s EXCEPT !.flight_mode = MC_MODE]
            ELSE s

\* mutant of FwNotRequestedBranch: an aborted front transition is flown
\* back through the back transition
FwNotRequestedBranch_AbortToBack(s, i, lp, hrt, p) ==
    CASE s.flight_mode = MC_MODE ->
            [s EXCEPT !.flight_mode = MC_MODE,
                      !.mc_weight = R(1),
                      !.reverse_output = R(0)]
      [] s.flight_mode \in {FW_MODE, TRANSITION_TO_FW} ->
            [s EXCEPT !.flight_mode = TRANSITION_TO_MC,
                      !.transition_start = hrt,
                      !.reverse_output = p.vt_b_rev_out]
      [] s.flight_mode = TRANSITION_TO_MC ->
            IF ExitBacktransition(i, lp, TimeSinceTransStart(hrt, s.transition_start), p)
            THEN [s EXCEPT !.flight_mode = MC_MODE]
            ELSE s

\* the branch taken when fixed-wing is not requested
FwNotRequestedBranch(s, i, lp, hrt, p) ==
    CASE s.flight_mode = MC_MODE ->
            [s EXCEPT !.flight_mode = MC_MODE,
                      !.mc_weight = R(1),
                      !.reverse_output = R(0)]
      [] s.flight_mode = FW_MODE ->
            [s EXCEPT !.flight_mode = TRANSITION_TO_MC,
                      !.transition_start = hrt,
                      !.reverse_output = p.vt_b_rev_out]
      [] s.flight_mode = TRANSITION_TO_FW ->
            [s EXCEPT !.flight_mode = MC_MODE,
                      !.mc_weight = R(1),
                      !.pusher_throttle = R(0),
                      !.reverse_output = R(0)]
      [] s.flight_mode = TRANSITION_TO_MC ->
            IF ExitBacktransition(i, lp, TimeSinceTransStart(hrt, s.transition_start), p)
            THEN [s EXCEPT !.flight_mode = MC_MODE]
            ELSE s

AirspeedTriggersTransition(i, p) ==
    PX4_ISFINITE(i.airspeed) /\ ~p.fw_arsp_mode

MinimumTransTimeElapsed(tsts, p) == tsts > p.min_front_trans_time

\* mutant of TransitionToFw: the airspeed must exceed VT_ARSP_TRANS
TransitionToFw_Strict(i, tsts, p) ==
    \/ /\ MinimumTransTimeElapsed(tsts, p)
       /\ IF AirspeedTriggersTransition(i, p)
          THEN i.airspeed[2] > p.vt_arsp_trans
          ELSE TRUE
    \/ i.on_ground

\* mutant of TransitionToFw: the airspeed does not complete the transition
TransitionToFw_OnGroundOnly(i, tsts, p) == i.on_ground

\* transition_to_fw of update_vtol_state
TransitionToFw(i, tsts, p) ==
    \/ /\ MinimumTransTimeElapsed(tsts, p)
       /\ IF AirspeedTriggersTransition(i, p)
          THEN i.airspeed[2] >= p.vt_arsp_trans
          ELSE TRUE
    \/ i.on_ground                       \* can_transition_on_ground()

\* mutant of FwRequestedBranch: a shortcut from hover to cruise on the ground
FwRequestedBranch_Shortcut(s, i, hrt, p) ==
    CASE s.flight_mode \in {MC_MODE, TRANSITION_TO_MC} ->
            IF i.on_ground
            THEN [s EXCEPT !.flight_mode = FW_MODE]
            ELSE [s EXCEPT !.flight_mode = TRANSITION_TO_FW,
                           !.transition_start = hrt]
      [] s.flight_mode = FW_MODE ->
            [s EXCEPT !.flight_mode = FW_MODE,
                      !.mc_weight = R(0)]
      [] s.flight_mode = TRANSITION_TO_FW ->
            IF TransitionToFw(i, TimeSinceTransStart(hrt, s.transition_start), p)
            THEN [s EXCEPT !.flight_mode = FW_MODE]
            ELSE s

\* the branch taken when fixed-wing is requested
FwRequestedBranch(s, i, hrt, p) ==
    CASE s.flight_mode \in {MC_MODE, TRANSITION_TO_MC} ->
            [s EXCEPT !.flight_mode = TRANSITION_TO_FW,
                      !.transition_start = hrt]
      [] s.flight_mode = FW_MODE ->
            [s EXCEPT !.flight_mode = FW_MODE,
                      !.mc_weight = R(0)]
      [] s.flight_mode = TRANSITION_TO_FW ->
            IF TransitionToFw(i, TimeSinceTransStart(hrt, s.transition_start), p)
            THEN [s EXCEPT !.flight_mode = FW_MODE]
            ELSE s

VtolState(s, i, lp, hrt, p) ==
    IF s.failsafe THEN FailsafeBranch(s, i)
    ELSE IF ~i.fw_requested THEN FwNotRequestedBranch(s, i, lp, hrt, p)
    ELSE FwRequestedBranch(s, i, hrt, p)

\* the fields update_vtol_state works on
Sched ==
    [ flight_mode |-> flight_mode, transition_start |-> transition_start,
      mc_weight |-> mc_roll_weight, pusher_throttle |-> pusher_throttle,
      reverse_output |-> reverse_output, failsafe |-> vtol_transition_failsafe ]

update_vtol_state ==
    /\ pc = "sched"
    /\ \E hrt \in (now + 1)..Min(now + MaxDt, MaxTime), i \in SchedInputs,
          lp \in LocalPositions :
         LET r == VtolState(Sched, i, lp, hrt, param)
         IN  /\ now' = hrt
             /\ in' = i
             /\ flight_mode' = r.flight_mode
             /\ transition_start' = r.transition_start
             /\ mc_roll_weight' = r.mc_weight
             /\ mc_pitch_weight' = r.mc_weight
             /\ mc_yaw_weight' = r.mc_weight
             /\ mc_throttle_weight' = r.mc_weight
             /\ pusher_throttle' = r.pusher_throttle
             /\ reverse_output' = r.reverse_output
             /\ vtol_transition_failsafe' = r.failsafe
             /\ vtol_mode' = CoarseMode(r.flight_mode)
    /\ quadchute_calls' = 0
    /\ pc' = "update"
    /\ returned_early' = FALSE
    /\ UNCHANGED << v_att_sp, static >>

(***************************************************************************)
(* Transition controller: Standard::update_transition_state.               *)
(***************************************************************************)
OneSecond == 1    \* 1_s

\* flag_control_climb_rate_enabled and the timestamps of the virtual
\* attitude setpoints, as one run of the controller finds them
SpInputs(hrt) ==
    [ climb_rate_enabled : BOOLEAN,
      mc_timestamp : {hrt - a : a \in {a \in {0, 2} : a <= hrt}},
      fw_timestamp : {hrt - a : a \in {a \in {0, 2} : a <= hrt}} ]

\* the freshness test that makes update_transition_state return early
SetpointsStale(s, hrt) ==
    IF s.climb_rate_enabled
    THEN s.mc_timestamp < hrt - OneSecond \/ s.fw_timestamp < hrt - OneSecond
    ELSE s.fw_timestamp < hrt - OneSecond

\* pusher throttle ramp of the front transition
FrontPusherThrottle(pusher, tsts, p) ==
    IF p.vt_psher_rmp_dt <= 0
    THEN p.vt_f_trans_thr
    ELSE IF RLe(pusher, p.vt_f_trans_thr)
         THEN RDiv(RMul(p.vt_f_trans_thr, R(tsts)), R(p.vt_psher_rmp_dt))
         ELSE pusher

\* mc_weight of the front transition, before the final constrain
FrontMcWeight(i, tsts, p) ==
    LET margin == p.vt_arsp_trans - p.vt_arsp_blend
        a == i.airspeed
    IN  IF /\ margin > 0
           /\ PX4_ISFINITE(a)
           /\ a[2] > 0
           /\ a[2] >= p.vt_arsp_blend
           /\ tsts > p.min_front_trans_time
        THEN RSub(R(1), RDiv(RAbs(R(a[2] - p.vt_arsp_blend)), R(margin)))
        ELSE IF p.fw_arsp_mode \/ ~PX4_ISFINITE(a)
             THEN constrain(
                    RMul(R(2), RSub(R(1), RDiv(R(tsts), R(p.min_front_trans_time)))),
                    R(0), R(1))
             ELSE R(1)

\* front transition timeout check
FrontTransitionTimeout(tsts, p) ==
    GtEpsilon(p.vt_trans_timeout) /\ tsts > p.vt_trans_timeout

\* pusher throttle (reverse thrust) of the back transition
BackPusherThrottle(tsts, p) ==
    IF tsts >= p.vt_b_rev_del
    THEN LET thrscale == RDiv(R(tsts - p.vt_b_rev_del), R(p.vt_psher_rmp_dt))
         IN  RMul(constrain(thrscale, R(0), R(1)), p.vt_b_trans_thr)
    ELSE R(0)

\* mc_weight of the back transition, before the final constrain
BackMcWeight(tsts, p) ==
    IF GtEpsilon(p.vt_b_trans_ramp)
    THEN RDiv(R(tsts), R(p.vt_b_trans_ramp))
    ELSE R(1)

\* what one run of update_transition_state leaves in the pusher throttle,
\* the mc weight and the number of quadchute calls; c holds the current
\* flight_mode, transition_start, pusher_throttle and mc_weight
TransitionState(c, i, s, hrt, p) ==
    LET tsts == TimeSinceTransStart(hrt, c.transition_start)
    IN  IF SetpointsStale(s, hrt)
        THEN [ pusher_throttle |-> c.pusher_throttle,
               mc_weight |-> c.mc_weight, quadchute |-> 0 ]
        ELSE IF c.flight_mode = TRANSITION_TO_FW
        THEN [ pusher_throttle |-> FrontPusherThrottle(c.pusher_throttle, tsts, p),
               mc_weight |-> constrain(FrontMcWeight(i, tsts, p), R(0), R(1)),
               quadchute |-> IF FrontTransitionTimeout(tsts, p) THEN 1 ELSE 0 ]
        ELSE IF c.flight_mode = TRANSITION_TO_MC
        THEN [ pusher_throttle |-> BackPusherThrottle(tsts, p),
               mc_weight |-> constrain(BackMcWeight(tsts, p), R(0), R(1)),
               quadchute |-> 0 ]
        ELSE [ pusher_throttle |-> c.pusher_throttle,
               mc_weight |-> R(1), quadchute |-> 0 ]

\* what one run of update_transition_state leaves in *_v_att_sp; att is
\* its value before the run
AttitudeSetpoint(att, c, i, s, hrt, p) ==
    LET tsts == TimeSinceTransStart(hrt, c.transition_start)
        copied == IF s.climb_rate_enabled
                  THEN [McVirtualAttSp EXCEPT !.roll_body = FwVirtualAttSp.roll_body]
                  ELSE [FwVirtualAttSp EXCEPT !.thrust_body_2 = "-fw.thrust_body[0]"]
    IN  IF SetpointsStale(s, hrt)
        THEN att
        ELSE IF c.flight_mode = TRANSITION_TO_FW
        THEN [copied EXCEPT !.pitch_body =
                 RMul(R(p.fw_psp_off), RSub(R(1), FrontMcWeight(i, tsts, p)))]
        ELSE IF c.flight_mode = TRANSITION_TO_MC /\ s.climb_rate_enabled
        THEN [copied EXCEPT !.pitch_body = BacktransitionPitchSp]
        ELSE copied

update_transition_state ==
    /\ pc = "update"
    /\ vtol_mode \in {"TRANSITION_TO_FW", "TRANSITION_TO_MC"}
    /\ \E s \in SpInputs(now) :
         LET r == TransitionState(Sched, in, s, now, param)
         IN  /\ returned_early' = SetpointsStale(s, now)
             /\ v_att_sp' = AttitudeSetpoint(v_att_sp, Sched, in, s, now, param)
             /\ pusher_throttle' = r.pusher_throttle
             /\ mc_roll_weight' = r.mc_weight
             /\ mc_pitch_weight' = r.mc_weight
             /\ mc_yaw_weight' = r.mc_weight
             /\ mc_throttle_weight' = r.mc_weight
             /\ quadchute_calls' = quadchute_calls + r.quadchute
    /\ pc' = "sched"
    /\ in' = NoInput
    /\ UNCHANGED << flight_mode, transition_start, reverse_output, vtol_mode,
                    vtol_transition_failsafe, now, static >>

(***************************************************************************)
(* Hover and cruise pass-through.  VtolType::update_mc_state and           *)
(* VtolType::update_fw_state hand the attitude setpoint of the hover or    *)
(* cruise attitude pipeline through to *_v_att_sp.                         *)
(***************************************************************************)
\* values VtolType::pusher_assist() may return
PusherAssist == {R(0), R(1)}

update_mc_state ==
    /\ pc = "update"
    /\ vtol_mode = "ROTARY_WING"
    /\ \E pa \in PusherAssist : pusher_throttle' = pa
    /\ v_att_sp' = McVirtualAttSp
    /\ pc' = "sched"
    /\ in' = NoInput
    /\ UNCHANGED << flight_mode, transition_start, mc_roll_weight, mc_pitch_weight,
                    mc_yaw_weight, mc_throttle_weight, reverse_output, vtol_mode,
                    vtol_transition_failsafe, now, quadchute_calls, returned_early, static >>

update_fw_state ==
    /\ pc = "update"
    /\ vtol_mode = "FIXED_WING"
    /\ v_att_sp' = FwVirtualAttSp
    /\ pc' = "sched"
    /\ in' = NoInput
    /\ UNCHANGED << flight_mode, transition_start, mc_roll_weight, mc_pitch_weight,
                    mc_yaw_weight, mc_throttle_weight, pusher_throttle,
                    reverse_output, vtol_mode, vtol_transition_failsafe, now,
                    quadchute_calls, returned_early, static >>

\* the failsafe flag of vtol_vehicle_status is raised from outside, between
\* two ticks
SetFailsafe ==
    /\ pc = "sched"
    /\ ~vtol_transition_failsafe
    /\ vtol_transition_failsafe' = TRUE
    /\ UNCHANGED << flight_mode, transition_start, mc_roll_weight, mc_pitch_weight,
                    mc_yaw_weight, mc_throttle_weight, pusher_throttle,
                    reverse_output, vtol_mode, now, pc, in, quadchute_calls,
                    returned_early, v_att_sp, static >>

Next ==
    \/ update_vtol_state
    \/ update_transition_state
    \/ update_mc_state
    \/ update_fw_state
    \/ SetFailsafe

Spec == Init /\ [][Next]_vars

(***************************************************************************)
(* Actuator mixer: Standard::fill_actuator_outputs.  w is the record of    *)
(* the four mc weights.  The FLAPS and SPOILERS channels carry the state   *)
(* of the slew-rate limiters and are left out.                             *)
(***************************************************************************)
Weights ==
    [ roll |-> mc_roll_weight, pitch |-> mc_pitch_weight,
      yaw |-> mc_yaw_weight, throttle |-> mc_throttle_weight ]

\* mutant of McModeOutputs: hover is mixed like a transition
McModeOutputs_Weighted(a, w, pusher, reverse, p) ==
    [ mc_out |-> [ roll |-> RMul(a.mc.roll, w.roll),
                   pitch |-> RMul(a.mc.pitch, w.pitch),
                   yaw |-> RMul(a.mc.yaw, w.yaw),
                   throttle |-> RMul(a.mc.throttle, w.throttle),
                   landing_gear |-> "GEAR_DOWN" ],
      fw_out |-> [ roll |-> IF p.vt_elev_mc_lock THEN R(0) ELSE a.fw.roll,
                   pitch |-> IF p.vt_elev_mc_lock THEN R(0) ELSE a.fw.pitch,
                   yaw |-> R(0),
                   throttle |-> pusher,
                   airbrakes |-> reverse ] ]

\* case vtol_mode::MC_MODE
McModeOutputs(a, w, pusher, reverse, p) ==
    [ mc_out |-> [ roll |-> a.mc.roll,
                   pitch |-> a.mc.pitch,
                   yaw |-> a.mc.yaw,
                   throttle |-> a.mc.throttle,
                   landing_gear |-> "GEAR_DOWN" ],
      fw_out |-> [ roll |-> IF p.vt_elev_mc_lock THEN R(0) ELSE a.fw.roll,
                   pitch |-> IF p.vt_elev_mc_lock THEN R(0) ELSE a.fw.pitch,
                   yaw |-> R(0),
                   throttle |-> pusher,
                   airbrakes |-> R(0) ] ]

\* case vtol_mode::TRANSITION_TO_FW and case vtol_mode::TRANSITION_TO_MC
TransitionOutputs(a, w, pusher, reverse, p) ==
    [ mc_out |-> [ roll |-> RMul(a.mc.roll, w.roll),
                   pitch |-> RMul(a.mc.pitch, w.pitch),
                   yaw |-> RMul(a.mc.yaw, w.yaw),
                   throttle |-> RMul(a.mc.throttle, w.throttle),
                   landing_gear |-> "GEAR_UP" ],
      fw_out |-> [ roll |-> a.fw.roll,
                   pitch |-> a.fw.pitch,
                   yaw |-> a.fw.yaw,
                   throttle |-> pusher,
                   airbrakes |-> reverse ] ]

\* mutant of FwModeOutputs: the lift rotors keep their weighted share
FwModeOutputs_Weighted(a, w, pusher, reverse, p) ==
    [ mc_out |-> [ roll |-> RMul(a.mc.roll, w.roll),
                   pitch |-> RMul(a.mc.pitch, w.pitch),
                   yaw |-> RMul(a.mc.yaw, w.yaw),
                   throttle |-> RMul(a.mc.throttle, w.throttle),
                   landing_gear |-> "GEAR_UP" ],
      fw_out |-> [ roll |-> a.fw.roll,
                   pitch |-> a.fw.pitch,
                   yaw |-> a.fw.yaw,
                   throttle |-> a.fw.throttle,
                   airbrakes |-> R(0) ] ]

\* case vtol_mode::FW_MODE
FwModeOutputs(a, w, pusher, reverse, p) ==
    [ mc_out |-> [ roll |-> R(0),
                   pitch |-> R(0),
                   yaw |-> R(0),
                   throttle |-> R(0),
                   landing_gear |-> "GEAR_UP" ],
      fw_out |-> [ roll |-> a.fw.roll,
                   pitch |-> a.fw.pitch,
                   yaw |-> a.fw.yaw,
                   throttle |-> a.fw.throttle,
                   airbrakes |-> R(0) ] ]

\* what fill_actuator_outputs publishes
FillActuatorOutputs(mode, a, w, pusher, reverse, p) ==
    LET c == CASE mode = MC_MODE -> McModeOutputs(a, w, pusher, reverse, p)
               [] mode \in {TRANSITION_TO_FW, TRANSITION_TO_MC} ->
                     TransitionOutputs(a, w, pusher, reverse, p)
               [] mode = FW_MODE -> FwModeOutputs(a, w, pusher, reverse, p)
    IN  [ mc_out |-> c.mc_out,
          fw_out |-> c.fw_out,
          torque_setpoint_0 |-> << c.mc_out.roll, c.mc_out.pitch, c.mc_out.yaw >>,
          torque_setpoint_1 |-> << c.fw_out.roll, c.fw_out.pitch, c.fw_out.yaw >>,
          thrust_setpoint_0 |-> << c.fw_out.throttle, R(0), RNeg(c.mc_out.throttle) >>,
          thrust_setpoint_1 |-> << R(0), R(0), R(0) >> ]

fill_actuator_outputs ==
    /\ out' = FillActuatorOutputs(flight_mode, act_in, Weights, pusher_throttle,
                                  reverse_output, param)
    /\ UNCHANGED << flight_mode, transition_start, mc_roll_weight, mc_pitch_weight,
                    mc_yaw_weight, mc_throttle_weight, pusher_throttle,
                    reverse_output, vtol_mode, vtol_transition_failsafe, now, pc,
                    in, quadchute_calls, param, param_store, param_updates,
                    returned_early, v_att_sp, act_in >>

\* the mixer as a function: every mode, weight, throttle and input it can
\* be called with
MixerWeights == {R(0), Half, R(1)}

MixerThrottles == {R(0), Half, Rat(3, 2)}

InitMixer ==
    /\ flight_mode \in FlightModes
    /\ transition_start = 0
    /\ \E w \in MixerWeights : McWeightIs(w)
    /\ pusher_throttle \in MixerThrottles
    /\ reverse_output \in {R(0), R(1)}
    /\ vtol_mode = CoarseMode(flight_mode)
    /\ vtol_transition_failsafe = FALSE
    /\ now = 0
    /\ pc = "sched"
    /\ in = NoInput
    /\ quadchute_calls = 0
    /\ param_store \in { [r EXCEPT !.vt_elev_mc_lock = l] : r \in RawParams, l \in BOOLEAN }
    /\ param = ParametersUpdate(param_store)
    /\ param_updates = 1
    /\ returned_early = FALSE
    /\ v_att_sp = McVirtualAttSp
    /\ act_in \in ActuatorInputs
    /\ out = NoOutput

NextMixer == fill_actuator_outputs

SpecMixer == InitMixer /\ [][NextMixer]_vars

(***************************************************************************)
(* Parameter reload: Standard::parameters_update, from the state before    *)
(* the first call.  Param::set may or may not write the clamped value      *)
(* through to the parameter store.                                         *)
(***************************************************************************)
MaxParam == 4

MaxParamUpdates == 3

parameters_update ==
    /\ param_updates < MaxParamUpdates
    /\ param' = ParametersUpdate(param_store)
    /\ param_store' \in {param_store, ParametersUpdate(param_store)}
    /\ param_updates' = param_updates + 1
    /\ UNCHANGED << flight_mode, transition_start, mc_roll_weight, mc_pitch_weight,
                    mc_yaw_weight, mc_throttle_weight, pusher_throttle,
                    reverse_output, vtol_mode, vtol_transition_failsafe, now, pc,
                    in, quadchute_calls, returned_early, v_att_sp, act_in, out >>

InitParams ==
    /\ flight_mode = MC_MODE
    /\ transition_start = 0
    /\ McWeightIs(R(1))
    /\ pusher_throttle = R(0)
    /\ reverse_output = R(0)
    /\ vtol_mode = "ROTARY_WING"
    /\ vtol_transition_failsafe = FALSE
    /\ now = 0
    /\ pc = "sched"
    /\ in = NoInput
    /\ quadchute_calls = 0
    /\ param_store \in { [r EXCEPT !.vt_b_trans_ramp = a, !.vt_b_trans_dur = b] :
                            r \in RawParams, a \in 0..MaxParam, b \in 0..MaxParam }
    /\ param = param_store
    /\ param_updates = 0
    /\ returned_early = FALSE
    /\ v_att_sp = McVirtualAttSp
    /\ act_in = NoActuatorInput
    /\ out = NoOutput

NextParams == parameters_update

SpecParams == InitParams /\ [][NextParams]_vars

(***************************************************************************)
(* Properties.                                                             *)
(***************************************************************************)
InUnit(x) == RLe(R(0), x) /\ RLe(x, R(1))

\* C1: a run of update_vtol_state that starts with vtol_transition_failsafe
\* set ends with flight_mode = MC_MODE, pusher_throttle = 0 and
\* reverse_output = 0, whatever the previous mode and the inputs.
FailsafeOverride ==
    [][ pc = "sched" /\ vtol_transition_failsafe
          => /\ flight_mode' = MC_MODE
             /\ pusher_throttle' = R(0)
             /\ reverse_output' = R(0) ]_vars

\* the scheduler has just run under failsafe with fixed-wing requested at an
\* airspeed above VT_ARSP_TRANS, after a transition had been started
FailsafeOverrideWitness ==
    /\ pc = "update"
    /\ vtol_transition_failsafe
    /\ in.fw_requested
    /\ in.airspeed = Fin(4)
    /\ transition_start > 0
    /\ flight_mode = MC_MODE
    /\ pusher_throttle = R(0)

\* C2: in every reachable state the four MC weight fields hold the same
\* value, and that value lies in [0, 1].
WeightInvariant ==
    /\ mc_roll_weight = mc_pitch_weight
    /\ mc_pitch_weight = mc_yaw_weight
    /\ mc_yaw_weight = mc_throttle_weight
    /\ InUnit(mc_roll_weight)

\* the transition controller has left a weight strictly inside (0, 1)
WeightInvariantWitness ==
    /\ pc = "sched"
    /\ flight_mode = TRANSITION_TO_MC
    /\ McWeightIs(Half)

\* C3: while vtol_transition_failsafe stays set the mode is MC_MODE after
\* every step, and the flag is cleared only by a scheduler run in which
\* fixed-wing is not requested; a run with fixed-wing requested keeps it.
FailsafeLatch ==
    [][ /\ vtol_transition_failsafe /\ vtol_transition_failsafe'
            => flight_mode' = MC_MODE
        /\ vtol_transition_failsafe /\ ~vtol_transition_failsafe'
            => pc = "sched" /\ ~in'.fw_requested
        /\ vtol_transition_failsafe /\ pc = "sched" /\ in'.fw_requested
            => vtol_transition_failsafe' ]_vars

\* the flag has survived a whole tick with fixed-wing requested and is still
\* set when the hover pass-through has run
FailsafeLatchWitness ==
    /\ pc = "sched"
    /\ vtol_transition_failsafe
    /\ flight_mode = MC_MODE
    /\ transition_start > 0
    /\ now > transition_start + 2
    /\ pusher_throttle = R(1)

\* C4: a scheduler run that starts in TRANSITION_TO_FW with fixed-wing
\* requested and no failsafe ends in FW_MODE iff can_transition_on_ground()
\* holds, or the minimum transition time has elapsed and the airspeed is
\* either not a trusted trigger or at least VT_ARSP_TRANS; otherwise the mode
\* stays TRANSITION_TO_FW.
FrontCompletionGuard ==
    [][ /\ pc = "sched"
        /\ flight_mode = TRANSITION_TO_FW
        /\ ~vtol_transition_failsafe
        /\ in'.fw_requested
        => LET t == now' - transition_start
               a == in'.airspeed
               complete ==
                   \/ in'.on_ground
                   \/ /\ t > param.min_front_trans_time
                      /\ \/ ~a[1]
                         \/ param.fw_arsp_mode
                         \/ a[2] >= param.vt_arsp_trans
           IN  /\ complete => flight_mode' = FW_MODE
               /\ ~complete => flight_mode' = TRANSITION_TO_FW ]_vars

\* the front transition has completed off the ground on a trusted airspeed
\* equal to VT_ARSP_TRANS
FrontCompletionGuardWitness ==
    /\ pc = "update"
    /\ flight_mode = FW_MODE
    /\ in.fw_requested
    /\ ~in.on_ground
    /\ ~param.fw_arsp_mode
    /\ in.airspeed = Fin(param.vt_arsp_trans)
    /\ TimeSince > param.min_front_trans_time

\* C5: in every tick in TRANSITION_TO_FW with VT_TRANS_TIMEOUT > 0 and
\* time_since_trans_start > VT_TRANS_TIMEOUT the transition controller calls
\* quadchute(TransitionTimeout) once, whatever the freshness of the virtual
\* attitude setpoints.
WatchdogFiresEveryTick ==
    [][ /\ pc = "update"
        /\ flight_mode = TRANSITION_TO_FW
        /\ param.vt_trans_timeout > 0
        /\ TimeSince > param.vt_trans_timeout
        => quadchute_calls' = 1 /\ flight_mode' = flight_mode ]_vars

\* C6: VT_B_TRANS_DUR is a hard maximum of the back transition: whenever the
\* mode is TRANSITION_TO_MC the time since the transition started is at most
\* VT_B_TRANS_DUR.
BackTransitionBounded ==
    flight_mode = TRANSITION_TO_MC => TimeSince <= param.vt_b_trans_dur

\* the scheduler has left the back transition for MC_MODE on the time
\* condition alone: not on the ground, airspeed NaN, duration exceeded
BackTransitionBoundedWitness ==
    /\ pc = "update"
    /\ flight_mode = MC_MODE
    /\ ~vtol_transition_failsafe
    /\ reverse_output = param.vt_b_rev_out
    /\ ~in.fw_requested
    /\ ~in.on_ground
    /\ in.airspeed = NaN
    /\ TimeSince > param.vt_b_trans_dur

\* C7: at the end of every tick whose flight mode is FW_MODE all four MC
\* weights are 0, the tick that switches from TRANSITION_TO_FW to FW_MODE
\* included.
FwModeWeightZero ==
    pc = "sched" /\ flight_mode = FW_MODE => McWeightIs(R(0))

\* C8: at the end of every tick whose flight mode is MC_MODE reverse_output
\* is 0, the tick that leaves TRANSITION_TO_MC for MC_MODE included.
McModeNoReverse ==
    pc = "sched" /\ flight_mode = MC_MODE => reverse_output = R(0)

\* C9: a scheduler run that changes the mode into TRANSITION_TO_FW (from
\* MC_MODE or TRANSITION_TO_MC) or into TRANSITION_TO_MC (from FW_MODE) sets
\* transition_start to the time of that run; every other step leaves
\* transition_start unchanged, and the clock never runs backwards.
TransitionTimer ==
    [][ /\ now' >= now
        /\ IF flight_mode' # flight_mode
              /\ flight_mode' \in {TRANSITION_TO_FW, TRANSITION_TO_MC}
           THEN /\ transition_start' = now'
                /\ flight_mode' = TRANSITION_TO_FW
                     => flight_mode \in {MC_MODE, TRANSITION_TO_MC}
                /\ flight_mode' = TRANSITION_TO_MC => flight_mode = FW_MODE
           ELSE transition_start' = transition_start ]_vars

\* a back transition has just been entered, after an earlier front
\* transition, and its timer reads zero
TransitionTimerWitness ==
    /\ pc = "update"
    /\ flight_mode = TRANSITION_TO_MC
    /\ transition_start = now
    /\ now > 2

\* C10: with VT_F_TRANS_THR, VT_B_TRANS_THR, VT_B_REV_OUT and pusher_assist()
\* in [0, 1], pusher_throttle and reverse_output stay in [0, 1].
PusherRange ==
    InUnit(pusher_throttle) /\ InUnit(reverse_output)

\* the pusher throttle and mc weight a run of update_transition_state with
\* recent setpoints leaves at the current time
FreshSp == [ climb_rate_enabled |-> FALSE, mc_timestamp |-> now, fw_timestamp |-> now ]

ScheduleNow == TransitionState(Sched, in, FreshSp, now, param)

\* C11: with VT_PSHER_RMP_DT > 0, from the end of one tick in
\* TRANSITION_TO_FW to the end of the next tick in TRANSITION_TO_FW of the
\* same transition pusher_throttle does not decrease while it is at most
\* VT_F_TRANS_THR, and does not change once it is above VT_F_TRANS_THR.
PusherRampMonotone ==
    [][ ( /\ pc = "update"
          /\ flight_mode = TRANSITION_TO_FW
          /\ TimeSince > 0
          /\ param.vt_psher_rmp_dt > 0 )
        => IF RLe(pusher_throttle, param.vt_f_trans_thr)
           THEN RLe(pusher_throttle, pusher_throttle')
           ELSE pusher_throttle' = pusher_throttle ]_vars

\* C12: at the end of a tick in TRANSITION_TO_MC, with VT_PSHER_RMP_DT > 0,
\* pusher_throttle is 0 before VT_B_REV_DEL has passed and VT_B_TRANS_THR
\* from VT_B_REV_DEL + VT_PSHER_RMP_DT on, whatever the setpoints' age.
BackPusherSchedule ==
    ( /\ pc = "sched"
      /\ flight_mode = TRANSITION_TO_MC
      /\ param.vt_psher_rmp_dt > 0 )
    => /\ TimeSince < param.vt_b_rev_del => pusher_throttle = R(0)
       /\ TimeSince >= param.vt_b_rev_del + param.vt_psher_rmp_dt
            => pusher_throttle = param.vt_b_trans_thr

\* C13: a run of update_transition_state that finds a required virtual
\* setpoint older than 1 s leaves *_v_att_sp as it was and still sets the mc
\* weights and pusher_throttle to their scheduled values for the current
\* time_since_trans_start.
StaleTickKeepsSchedules ==
    [][ ( /\ pc = "update"
          /\ vtol_mode \in {"TRANSITION_TO_FW", "TRANSITION_TO_MC"}
          /\ returned_early' )
        => /\ v_att_sp' = v_att_sp
           /\ pusher_throttle' = ScheduleNow.pusher_throttle
           /\ mc_roll_weight' = ScheduleNow.mc_weight
           /\ mc_pitch_weight' = ScheduleNow.mc_weight
           /\ mc_yaw_weight' = ScheduleNow.mc_weight
           /\ mc_throttle_weight' = ScheduleNow.mc_weight ]_vars

\* C14: after a call of fill_actuator_outputs in FW_MODE the MC-group ROLL,
\* PITCH, YAW and THROTTLE outputs are 0, torque_setpoint_0 is (0, 0, 0) and
\* thrust_setpoint_0.z is 0, for every mc_in and every mc weight; the
\* FW-group ROLL, PITCH, YAW and THROTTLE are those of fw_in, and
\* thrust_setpoint_0.x is the THROTTLE of fw_in.
MixerFwMode ==
    (out # NoOutput /\ flight_mode = FW_MODE)
    => /\ out.mc_out.roll = R(0)
       /\ out.mc_out.pitch = R(0)
       /\ out.mc_out.yaw = R(0)
       /\ out.mc_out.throttle = R(0)
       /\ out.torque_setpoint_0 = << R(0), R(0), R(0) >>
       /\ out.thrust_setpoint_0[3] = R(0)
       /\ out.fw_out.roll = act_in.fw.roll
       /\ out.fw_out.pitch = act_in.fw.pitch
       /\ out.fw_out.yaw = act_in.fw.yaw
       /\ out.fw_out.throttle = act_in.fw.throttle
       /\ out.thrust_setpoint_0[1] = act_in.fw.throttle

\* the mixer has run in FW_MODE with a non-zero mc weight left by the
\* transition and a non-zero mc_in
MixerFwModeWitness ==
    /\ out # NoOutput
    /\ flight_mode = FW_MODE
    /\ McWeightIs(Half)
    /\ act_in.mc.throttle = R(1)

\* C15: after a call of fill_actuator_outputs in MC_MODE the MC-group ROLL,
\* PITCH, YAW and THROTTLE are those of mc_in whatever the mc weights are,
\* FW-group YAW and AIRBRAKES are 0 whatever reverse_output is, FW-group
\* THROTTLE is pusher_throttle, and FW-group ROLL and PITCH are 0 with
\* VT_ELEV_MC_LOCK and those of fw_in without it.  The landing gear is DOWN
\* in MC_MODE and UP in the three other modes.
MixerMcMode ==
    out # NoOutput
    => /\ flight_mode = MC_MODE
            => /\ out.mc_out.roll = act_in.mc.roll
               /\ out.mc_out.pitch = act_in.mc.pitch
               /\ out.mc_out.yaw = act_in.mc.yaw
               /\ out.mc_out.throttle = act_in.mc.throttle
               /\ out.fw_out.yaw = R(0)
               /\ out.fw_out.airbrakes = R(0)
               /\ out.fw_out.throttle = pusher_throttle
               /\ out.fw_out.roll =
                     IF param.vt_elev_mc_lock THEN R(0) ELSE act_in.fw.roll
               /\ out.fw_out.pitch =
                     IF param.vt_elev_mc_lock THEN R(0) ELSE act_in.fw.pitch
       /\ out.mc_out.landing_gear =
             IF flight_mode = MC_MODE THEN "GEAR_DOWN" ELSE "GEAR_UP"

\* the mixer has run in MC_MODE with mc weights below 1, reverse_output set
\* and the elevons not locked
MixerMcModeWitness ==
    /\ out # NoOutput
    /\ flight_mode = MC_MODE
    /\ McWeightIs(Half)
    /\ reverse_output = R(1)
    /\ ~param.vt_elev_mc_lock
    /\ act_in.fw.roll = R(-1)

\* C16: a call of parameters_update leaves VT_B_TRANS_RAMP at the minimum of
\* the stored VT_B_TRANS_RAMP and VT_B_TRANS_DUR, so at most VT_B_TRANS_DUR,
\* leaves VT_B_TRANS_DUR at its stored value, and a call after the first
\* changes no parameter.
ParameterClamp ==
    [][ param_updates' # param_updates
        => /\ param'.vt_b_trans_ramp =
                 Min(param_store.vt_b_trans_ramp, param_store.vt_b_trans_dur)
           /\ param'.vt_b_trans_ramp <= param'.vt_b_trans_dur
           /\ param'.vt_b_trans_dur = param_store.vt_b_trans_dur
           /\ param_updates >= 1 => param' = param ]_vars

\* parameters_update has run twice on a stored ramp longer than the duration
ParameterClampWitness ==
    /\ param_updates = 2
    /\ param_store.vt_b_trans_ramp > param_store.vt_b_trans_dur
    /\ param.vt_b_trans_ramp = param.vt_b_trans_dur

\* C17: a run of update_vtol_state that starts in TRANSITION_TO_FW without
\* failsafe and finds fixed wing not requested ends in MC_MODE, with the four
\* mc weights 1, pusher_throttle 0, reverse_output 0 and transition_start
\* unchanged, whatever the time and the airspeed.
FrontTransitionAbort ==
    [][ ( /\ pc = "sched"
          /\ pc' = "update"
          /\ flight_mode = TRANSITION_TO_FW
          /\ ~vtol_transition_failsafe
          /\ ~in'.fw_requested )
        => /\ flight_mode' = MC_MODE
           /\ vtol_mode' = "ROTARY_WING"
           /\ mc_roll_weight' = R(1)
           /\ mc_pitch_weight' = R(1)
           /\ mc_yaw_weight' = R(1)
           /\ mc_throttle_weight' = R(1)
           /\ pusher_throttle' = R(0)
           /\ reverse_output' = R(0)
           /\ transition_start' = transition_start ]_vars

\* the scheduler has just aborted a front transition whose controller had
\* written the attitude setpoint, more than the minimum transition time
\* after its start and with the airspeed above VT_ARSP_TRANS
FrontTransitionAbortWitness ==
    /\ pc = "update"
    /\ flight_mode = MC_MODE
    /\ ~vtol_transition_failsafe
    /\ ~in.fw_requested
    /\ v_att_sp # McVirtualAttSp
    /\ reverse_output = R(0)
    /\ TimeSince > param.min_front_trans_time
    /\ in.airspeed = Fin(4)

\* C18: flight_mode changes only along MC_MODE -> TRANSITION_TO_FW,
\* TRANSITION_TO_FW -> FW_MODE, TRANSITION_TO_FW -> MC_MODE,
\* FW_MODE -> TRANSITION_TO_MC, TRANSITION_TO_MC -> MC_MODE and
\* TRANSITION_TO_MC -> TRANSITION_TO_FW, and from any mode to MC_MODE when
\* the failsafe flag is set.
AllowedEdges ==
    { << MC_MODE, TRANSITION_TO_FW >>, << TRANSITION_TO_FW, FW_MODE >>,
      << TRANSITION_TO_FW, MC_MODE >>, << FW_MODE, TRANSITION_TO_MC >>,
      << TRANSITION_TO_MC, MC_MODE >>, << TRANSITION_TO_MC, TRANSITION_TO_FW >> }

ModeGraph ==
    [][ flight_mode' # flight_mode
        => \/ << flight_mode, flight_mode' >> \in AllowedEdges
           \/ vtol_transition_failsafe /\ flight_mode' = MC_MODE ]_vars

\* a front transition has just been entered straight from a back transition
\* that was running
ModeGraphWitness ==
    /\ pc = "update"
    /\ flight_mode = TRANSITION_TO_FW
    /\ transition_start = now
    /\ ~vtol_transition_failsafe
    /\ reverse_output = param.vt_b_rev_out
    /\ v_att_sp # McVirtualAttSp
    /\ RLt(mc_roll_weight, R(1))

\* C19: whenever flight_mode is TRANSITION_TO_FW, reverse_output is 0 and
\* the FW-group AIRBRAKES output of the mixer is 0.
NoReverseInFrontTransition ==
    flight_mode = TRANSITION_TO_FW
    => /\ reverse_output = R(0)
       /\ FillActuatorOutputs(flight_mode, act_in, Weights, pusher_throttle,
                              reverse_output, param).fw_out.airbrakes = R(0)

=============================================================================
